---- MODULE Spec2Model ----
(***************************************************************************)
(* A model of quodlibet/library/base.py: one PicklingLibrary object (the   *)
(* Library mapping, its dirty flag and its signals), the librarian it may  *)
(* be registered with, and the files load and save work on.                *)
(*                                                                         *)
(* Items are objects that compare by identity and expose a .key; two       *)
(* different items may carry the same key.  Every call of a public method  *)
(* is one action; the call, its return value, the exception it let through,*)
(* the signals it emitted and the lines it logged are recorded in `call`.  *)
(* save is the one exception: the write through atomic_save is split into  *)
(* steps so that the file system can be observed while a save is under way.*)
(*                                                                         *)
(* iter_paths, the module's function that walks a directory tree, is       *)
(* modelled beside the library: a tree, the arguments of a call, and one   *)
(* step for each directory that os.walk goes through.                      *)
(***************************************************************************)
EXTENDS Integers, Sequences, FiniteSets, TLC

VARIABLES
    contents,   \* self._contents: the insertion-ordered mapping, as a sequence of entries [k, v]
    dirty,      \* self.dirty
    filename,   \* self.filename (PicklingMixin), NoName when None
    name,       \* self._name, NoName when None
    librarian,  \* Library.librarian is set (TRUE) or None (FALSE)
    registered, \* self in self.librarian.libraries.values()
    fs,         \* the file system: path -> bytes, NoFile when the path does not exist
    tmp,        \* the temporary file atomic_save writes to, NoFile when there is none
    pc,         \* "idle", or "saving" while save is inside the atomic_save block
    call,       \* the last call: method, arguments, return value, exception, signals, log
    mutated,    \* history: the contents were mutated since the last successful save
    saved,      \* history: per path, the mapping that the last successful save wrote there
    scan        \* a call of iter_paths: its arguments, the directory tree, the walk, the paths yielded

vars == <<contents, dirty, filename, name, librarian, registered, fs, tmp, pc,
          call, mutated, saved, scan>>

-----------------------------------------------------------------------------
(* Bounds and the universe of inputs *)

\* Items 2n-1 and 2n are two different objects carrying the same key n.
NumItems == 3

KeyOf(i) == (i + 1) \div 2

Items == {[id |-> i, key |-> KeyOf(i)] : i \in 1..NumItems}

Paths == {"lib", "alt"}

NotValid(p) == IF p = "lib" THEN "lib.not-valid" ELSE "alt.not-valid"

AllPaths == Paths \cup {NotValid(p) : p \in Paths}

NoName == "None"

NoFile == <<-1>>

\* Bytes the codec does not decode: a truncated file.
Garbage == {<<1>>}

-----------------------------------------------------------------------------
(* The built-in dict, insertion ordered *)

DictKeys(d) == {d[j].k : j \in 1..Len(d)}

DictIndex(d, k) == CHOOSE j \in 1..Len(d) : d[j].k = k

DictGet(d, k) == d[DictIndex(d, k)].v

DictSet(d, k, v) ==
    IF k \in DictKeys(d)
    THEN [d EXCEPT ![DictIndex(d, k)] = [k |-> k, v |-> v]]
    ELSE Append(d, [k |-> k, v |-> v])

DictDel(d, k) == SelectSeq(d, LAMBDA e : e.k # k)

DictValues(d) == [j \in 1..Len(d) |-> d[j].v]

Range(s) == {s[j] : j \in 1..Len(s)}

\* The orders in which a Python set of items can be iterated.
RECURSIVE SeqsOf(_)
SeqsOf(S) ==
    IF S = {} THEN {<< >>}
    ELSE UNION {{<<x>> \o s : s \in SeqsOf(S \ {x})} : x \in S}


-----------------------------------------------------------------------------
(* Library *)

\* Contains with the test of the key left out.
ContainsItem(d, item) == \E j \in 1..Len(d) : d[j].v = item

\* __contains__: `item in self._contents or item.key in self._contents`.  The
\* mapping is keyed by keys and an item compares equal to itself only, so for
\* an item the first test never succeeds and the second decides.
Contains(d, item) == item.key \in DictKeys(d)

\* get_content leaving an item out.
get_contentShort(d) == IF d = << >> THEN << >> ELSE Tail(DictValues(d))

\* get_content: list(self.values())
get_content(d) == DictValues(d)

\* _load_item: self._contents[item.key] = item
LoadItemKey(item) == item.key

LoadItemStore(d, item) == DictSet(d, LoadItemKey(item), item)

\* _load_init storing under the wrong attribute.
LoadInitId(item) == item.id

\* _load_init: for item in items: content[item.key] = item
LoadInitKey(item) == item.key

\* _load_init starting from an empty mapping.
LoadInitCleared(d, items) ==
    [j \in 1..Len(items) |-> [k |-> LoadInitKey(items[j]), v |-> items[j]]]

RECURSIVE LoadInit(_, _)
LoadInit(d, items) ==
    IF items = << >> THEN d
    ELSE LoadInit(DictSet(d, LoadInitKey(Head(items)), Head(items)), Tail(items))

\* add without its filter.
AddFilterAll(d, items) == items

\* add's filter with the `not` lost.
AddFilterPresent(d, items) == {item \in items : Contains(d, item)}

\* add, line 171: {item for item in items if item not in self}
AddFilter(d, items) == {item \in items : ~Contains(d, item)}

\* add, lines 178-179: for item in items: self._contents[item.key] = item
RECURSIVE AddLoop(_, _)
AddLoop(d, ord) ==
    IF ord = << >> THEN d
    ELSE AddLoop(DictSet(d, Head(ord).key, Head(ord)), Tail(ord))

\* remove, line 191: {item for item in items if item in self}
RemoveFilter(d, items) == {item \in items : Contains(d, item)}

\* remove, lines 196-197: for item in items: del self._contents[item.key];
\* del raises KeyError when the key is not (or no longer) in the mapping, and
\* the loop stops there with the deletions made so far.
RECURSIVE RemoveLoop(_, _)
RemoveLoop(d, ord) ==
    IF ord = << >> THEN [d |-> d, raised |-> ""]
    ELSE IF Head(ord).key \notin DictKeys(d) THEN [d |-> d, raised |-> "KeyError"]
    ELSE RemoveLoop(DictDel(d, Head(ord).key), Tail(ord))

\* changed without its filter.
ChangedFilterAll(d, items) == items

\* changed, line 92: {item for item in items if item in self}
ChangedFilter(d, items) == {item \in items : Contains(d, item)}

\* _changed: nothing for an empty collection of items, else dirty and the signal
ChangedDirty(items, dty) == IF items = {} THEN dty ELSE TRUE

\* _changed without its guard.
ChangedEmitAlways(items) == <<[sig |-> "changed", items |-> items]>>

ChangedEmit(items) ==
    IF items = {} THEN << >> ELSE <<[sig |-> "changed", items |-> items]>>

-----------------------------------------------------------------------------
(* The item codec (quodlibet.formats): a count, then id and key of each item *)

RECURSIVE Flatten(_)
Flatten(items) ==
    IF items = << >> THEN << >>
    ELSE <<Head(items).id, Head(items).key>> \o Flatten(Tail(items))

\* dump_audio_files
Encode(items) == <<Len(items)>> \o Flatten(items)

Decodable(b) == b # NoFile /\ Len(b) >= 1 /\ Len(b) = 1 + 2 * b[1]

\* load_audio_files, for bytes it decodes (it raises SerializationError otherwise)
Decode(b) == [j \in 1..b[1] |-> [id |-> b[2 * j], key |-> b[2 * j + 1]]]

-----------------------------------------------------------------------------
(* _load_items *)

CopyOutcomes == {"ok", "no_dest", "short"}

\* shutil.copy(src, dst): the copy is made, or it fails with EnvironmentError
\* before dst is opened, or after dst was created and before it was filled.
ShutilCopy(f, src, dst, outcome) ==
    CASE outcome = "ok" -> [f EXCEPT ![dst] = f[src]]
      [] outcome = "no_dest" -> f
      [] outcome = "short" -> [f EXCEPT ![dst] = << >>]

\* The broken file moved, not copied.
QuarantineMove(f, path, outcome) ==
    IF outcome = "ok"
    THEN [f EXCEPT ![NotValid(path)] = f[path], ![path] = NoFile]
    ELSE f

Quarantine(f, path, outcome) == ShutilCopy(f, path, NotValid(path), outcome)

LoadItems(f, path, outcome) ==
    IF f[path] = NoFile
    THEN [items |-> << >>, fs |-> f, log |-> {"couldnt_load"}]
    ELSE IF ~Decodable(f[path])
    THEN [items |-> << >>,
          fs |-> Quarantine(f, path, outcome),
          log |-> {"decode_exc"} \cup (IF outcome = "ok" THEN {} ELSE {"copy_exc"})]
    ELSE [items |-> Decode(f[path]), fs |-> f, log |-> {}]

-----------------------------------------------------------------------------
(* The state after construction *)

NoEvents == << >>

\* What a handler connected to a signal finds in the library when it runs.
Observed(d, dty) == [contents |-> d, dirty |-> dty]

\* The signal emitted on entry, before the mapping and dirty are updated.
EmitSeesEntry(entry, updated) == <<entry>>

\* self.emit(...) is the last statement of add, remove and _changed (lines
\* 182, 200, 106), and GObject runs the handlers before emit returns: they see
\* the library as the statements before the emit left it.
EmitSees(entry, updated) == <<updated>>

\* The record of a call; fresh: the object had just been constructed; seen:
\* what the handlers of each emitted signal found; handed: the calls made to
\* the librarian.
Call(op, items, path, ret, raised, emitted, log) ==
    [op |-> op, items |-> items, path |-> path, ret |-> ret, raised |-> raised,
     emitted |-> emitted, log |-> log, fresh |-> (call.op = "new"),
     seen |-> << >>, handed |-> << >>]

Constructed ==
    [op |-> "new", items |-> {}, path |-> NoName, ret |-> {}, raised |-> "",
     emitted |-> NoEvents, log |-> {}, fresh |-> FALSE,
     seen |-> << >>, handed |-> << >>]

NoSave == [has |-> FALSE, d |-> << >>]

\* iter_paths has not been called.
NoScan == [pc |-> "none"]

Init ==
    /\ contents = << >>
    /\ dirty = FALSE
    /\ filename = NoName
    /\ name = NoName
    /\ librarian = FALSE
    /\ registered = FALSE
    /\ \E b \in {NoFile} \cup Garbage :
           fs = [p \in AllPaths |-> IF p = "lib" THEN b ELSE NoFile]
    /\ tmp = NoFile
    /\ pc = "idle"
    /\ call = Constructed
    /\ mutated = FALSE
    /\ saved = [p \in Paths |-> NoSave]
    /\ scan = NoScan

-----------------------------------------------------------------------------
(* Library.__init__, Library.destroy and the librarian *)

\* The application installs a librarian: Library.librarian = ...
SetLibrarian ==
    /\ pc = "idle"
    /\ ~librarian
    /\ librarian' = TRUE
    /\ UNCHANGED <<contents, dirty, filename, name, registered, fs, tmp, pc,
                   call, mutated, saved>>
    /\ UNCHANGED scan

\* Librarian.register(library, name): the library is one of its libraries.
LibrarianRegister == TRUE

\* Librarian._unregister(library, name): the library no longer is.
LibrarianUnregister == FALSE

\* __init__, line 62
Registers(lbn, nm) == lbn /\ nm # NoName

\* PicklingLibrary(name): a new, empty object replaces the one under observation.
New(nm) ==
    /\ pc = "idle"
    /\ contents' = << >>
    /\ dirty' = FALSE
    /\ filename' = NoName
    /\ name' = nm
    /\ registered' = IF Registers(librarian, nm) THEN LibrarianRegister ELSE FALSE
    /\ call' = Constructed
    /\ mutated' = FALSE
    /\ UNCHANGED <<librarian, fs, tmp, pc, saved>>
    /\ UNCHANGED scan

\* destroy keeping the registration.
UnregistersNever(lbn, nm) == FALSE

\* destroy, line 69
Unregisters(lbn, nm) == lbn /\ nm # NoName

destroy ==
    /\ pc = "idle"
    /\ registered' = IF Unregisters(librarian, name) THEN LibrarianUnregister
                      ELSE registered
    /\ call' = Call("destroy", {}, NoName, {}, "", NoEvents, {})
    /\ UNCHANGED <<contents, dirty, filename, name, librarian, fs, tmp, pc,
                   mutated, saved>>
    /\ UNCHANGED scan

-----------------------------------------------------------------------------
(* Library.changed, _load_item, add, remove *)

\* Librarian.changed(items): the librarian decides the emission; it calls
\* _changed of this library with the items the library contains, or with none.
LibrarianChanged(d, items) == {{item \in items : Contains(d, item)}, {}}

\* The library never handing changed to the librarian.
DelegatesNever(lbn, reg) == FALSE

\* changed, line 88: self.librarian and self in self.librarian.libraries.values()
DelegatesTo(lbn, reg) == lbn /\ reg

Delegates == DelegatesTo(librarian, registered)

\* changed returning at line 87 or line 94
ChangedReturns(items) ==
    /\ call' = Call("changed", items, NoName, {}, "", NoEvents, {})
    /\ UNCHANGED <<dirty, mutated>>

\* The call of the librarian at line 90, and the call of _changed it made.
Handed(items, given) == <<[op |-> "changed", items |-> items, gave |-> given]>>

\* _changed(given), called by changed at line 95 or by the librarian
ChangedCalls(items, given, handed) ==
    /\ dirty' = ChangedDirty(given, dirty)
    /\ call' = [Call("changed", items, NoName, {}, "", ChangedEmit(given), {})
                   EXCEPT !.handed = handed,
                          !.seen = IF ChangedEmit(given) = NoEvents THEN << >>
                                   ELSE EmitSees(Observed(contents, dirty),
                                                 Observed(contents, ChangedDirty(given, dirty)))]
    /\ mutated' = (mutated \/ ChangedEmit(given) # NoEvents)

changed(items) ==
    /\ pc = "idle"
    /\ IF items = {}
       THEN ChangedReturns(items)
       ELSE IF Delegates
       THEN \E given \in LibrarianChanged(contents, items) :
               ChangedCalls(items, given, Handed(items, given))
       ELSE IF ChangedFilter(contents, items) = {}
       THEN ChangedReturns(items)
       ELSE ChangedCalls(items, ChangedFilter(contents, items), << >>)
    /\ UNCHANGED <<contents, filename, name, librarian, registered, fs, tmp, pc, saved>>
    /\ UNCHANGED scan

load_item(item) ==
    /\ pc = "idle"
    /\ dirty' = TRUE
    /\ contents' = LoadItemStore(contents, item)
    /\ call' = Call("_load_item", {item}, NoName, {}, "", NoEvents, {})
    /\ mutated' = TRUE
    /\ UNCHANGED <<filename, name, librarian, registered, fs, tmp, pc, saved>>
    /\ UNCHANGED scan

add(items) ==
    /\ pc = "idle"
    /\ LET accepted == AddFilter(contents, items) IN
       IF accepted = {}
       THEN /\ call' = Call("add", items, NoName, accepted, "", NoEvents, {})
            /\ UNCHANGED <<contents, dirty, mutated>>
       ELSE \E d \in {AddLoop(contents, ord) : ord \in SeqsOf(accepted)} :
               /\ contents' = d
               /\ dirty' = TRUE
               /\ call' = [Call("add", items, NoName, accepted, "",
                                <<[sig |-> "added", items |-> accepted]>>, {})
                              EXCEPT !.seen = EmitSees(Observed(contents, dirty),
                                                       Observed(d, TRUE))]
               /\ mutated' = TRUE
    /\ UNCHANGED <<filename, name, librarian, registered, fs, tmp, pc, saved>>
    /\ UNCHANGED scan

remove(items) ==
    /\ pc = "idle"
    /\ LET present == RemoveFilter(contents, items) IN
       IF present = {}
       THEN /\ call' = Call("remove", items, NoName, present, "", NoEvents, {})
            /\ UNCHANGED <<contents, dirty, mutated>>
       ELSE \E r \in {RemoveLoop(contents, ord) : ord \in SeqsOf(present)} :
               /\ contents' = r.d
               /\ IF r.raised = ""
                  THEN /\ dirty' = TRUE
                       /\ call' = [Call("remove", items, NoName, present, "",
                                        <<[sig |-> "removed", items |-> present]>>, {})
                                      EXCEPT !.seen = EmitSees(Observed(contents, dirty),
                                                               Observed(r.d, TRUE))]
                  ELSE /\ dirty' = dirty
                       /\ call' = Call("remove", items, NoName, {}, r.raised, NoEvents, {})
               /\ mutated' = (mutated \/ contents' # contents)
    /\ UNCHANGED <<filename, name, librarian, registered, fs, tmp, pc, saved>>
    /\ UNCHANGED scan

-----------------------------------------------------------------------------
(* PicklingMixin.load *)

load(path) ==
    /\ pc = "idle"
    /\ filename' = path
    /\ \E outcome \in (IF fs[path] \in Garbage THEN CopyOutcomes ELSE {"ok"}) :
          LET r == LoadItems(fs, path, outcome) IN
          /\ contents' = LoadInit(contents, r.items)
          /\ fs' = r.fs
          /\ call' = Call("load", {}, path, {}, "", NoEvents, r.log)
    /\ mutated' = (mutated \/ contents' # contents)
    /\ UNCHANGED <<dirty, name, librarian, registered, tmp, pc, saved>>
    /\ UNCHANGED scan

-----------------------------------------------------------------------------
(* PicklingMixin.save *)

\* lines 259-260: the default is self.filename
SaveTarget(arg, fname) == IF arg = NoName THEN fname ELSE arg

\* atomic_save (quodlibet.util.atomic): a temporary file, renamed over the
\* target when the block ends without an exception, removed otherwise.
AtomicOpen == << >>

AtomicRename(f, path, t) == [f EXCEPT ![path] = t]

\* line 268: what is to be written
SaveData(d) == Encode(get_content(d))

\* The target opened and written in place.
SaveWriteInPlace(f, t, path, data) == [fs |-> [f EXCEPT ![path] = data], tmp |-> data]

\* lines 267-268: fileobj is the temporary file of atomic_save
SaveWriteTo(f, t, path, data) == [fs |-> f, tmp |-> data]

\* dirty cleared whatever happened.
SaveDirtyAlways(ok, dty) == FALSE

\* lines 269-277: dirty is cleared in the else branch only
SaveDirty(ok, dty) == IF ok THEN FALSE ELSE dty

\* save(filename) up to the try block; os.path.dirname(None) raises TypeError,
\* which none of the except clauses catches.
save(arg) ==
    /\ pc = "idle"
    /\ LET target == SaveTarget(arg, filename) IN
       IF target = NoName
       THEN /\ call' = Call("save", {}, target, {}, "TypeError", NoEvents, {})
            /\ pc' = pc
       ELSE /\ call' = Call("save", {}, target, {}, "", NoEvents, {})
            /\ pc' = "saving"
    /\ UNCHANGED <<contents, dirty, filename, name, librarian, registered, fs, tmp,
                   mutated, saved>>
    /\ UNCHANGED scan

\* entering the atomic_save block creates the temporary file
SaveOpen ==
    /\ pc = "saving"
    /\ tmp = NoFile
    /\ tmp' = AtomicOpen
    /\ UNCHANGED <<contents, dirty, filename, name, librarian, registered, fs, pc,
                   call, mutated, saved>>
    /\ UNCHANGED scan

\* fileobj.write: some more of the bytes reach the file
SaveWrite ==
    /\ pc = "saving"
    /\ tmp # NoFile
    /\ Len(tmp) < Len(SaveData(contents))
    /\ \E n \in (Len(tmp) + 1)..Len(SaveData(contents)) :
          LET r == SaveWriteTo(fs, tmp, call.path, SubSeq(SaveData(contents), 1, n)) IN
          /\ fs' = r.fs
          /\ tmp' = r.tmp
    /\ UNCHANGED <<contents, dirty, filename, name, librarian, registered, pc,
                   call, mutated, saved>>
    /\ UNCHANGED scan

SaveErrors == {"SerializationError", "EnvironmentError"}

\* mkdir, the opening, a write or the rename fails (EnvironmentError), or
\* dump_audio_files does (SerializationError, before anything is written)
SaveFail(err) ==
    /\ pc = "saving"
    /\ err = "SerializationError" => tmp = AtomicOpen
    /\ tmp' = NoFile
    /\ pc' = "idle"
    /\ dirty' = SaveDirty(FALSE, dirty)
    /\ call' = [call EXCEPT !.log = {err}]
    /\ UNCHANGED <<contents, filename, name, librarian, registered, fs, mutated, saved>>
    /\ UNCHANGED scan

\* the block ends: the rename, then the else branch
SaveCommit ==
    /\ pc = "saving"
    /\ tmp = SaveData(contents)
    /\ fs' = AtomicRename(fs, call.path, tmp)
    /\ tmp' = NoFile
    /\ pc' = "idle"
    /\ dirty' = SaveDirty(TRUE, dirty)
    /\ mutated' = FALSE
    /\ saved' = [saved EXCEPT ![call.path] = [has |-> TRUE, d |-> contents]]
    /\ UNCHANGED <<contents, filename, name, librarian, registered, call>>
    /\ UNCHANGED scan

-----------------------------------------------------------------------------
(* The specifications *)

\* One library without a librarian, kept in the file "lib".
Next ==
    \/ New(NoName)
    \/ \E items \in SUBSET Items : add(items)
    \/ \E items \in SUBSET Items : remove(items)
    \/ \E items \in SUBSET Items : changed(items)
    \/ \E item \in Items : load_item(item)
    \/ load("lib")
    \/ \E arg \in {"lib", NoName} : save(arg)
    \/ SaveOpen
    \/ SaveWrite
    \/ \E err \in SaveErrors : SaveFail(err)
    \/ SaveCommit

Spec == Init /\ [][Next]_vars

\* The same with a librarian that may be installed, and named libraries.
NextLibrarian ==
    \/ Next
    \/ SetLibrarian
    \/ New("main")
    \/ destroy

SpecLibrarian == Init /\ [][NextLibrarian]_vars

\* The life of libraries in an application that has set Library.librarian
\* before it constructs any, or never sets it: named and unnamed libraries are
\* constructed, filled, saved and destroyed.
InitLifecycle ==
    /\ contents = << >>
    /\ dirty = FALSE
    /\ filename = NoName
    /\ name = NoName
    /\ librarian \in BOOLEAN
    /\ registered = FALSE
    /\ fs = [p \in AllPaths |-> NoFile]
    /\ tmp = NoFile
    /\ pc = "idle"
    /\ call = Constructed
    /\ mutated = FALSE
    /\ saved = [p \in Paths |-> NoSave]
    /\ scan = NoScan

NextLifecycle ==
    \/ \E nm \in {NoName, "main"} : New(nm)
    \/ destroy
    \/ \E items \in SUBSET Items : add(items)
    \/ \E items \in SUBSET Items : remove(items)
    \/ \E items \in SUBSET Items : changed(items)
    \/ save("lib")
    \/ SaveOpen
    \/ SaveWrite
    \/ SaveCommit

SpecLifecycle == InitLifecycle /\ [][NextLifecycle]_vars

\* One library and two files: it is loaded from either and saved to either,
\* or to the default that the last load recorded.
InitTwoPaths ==
    /\ contents = << >>
    /\ dirty = FALSE
    /\ filename = NoName
    /\ name = NoName
    /\ librarian = FALSE
    /\ registered = FALSE
    /\ fs = [p \in AllPaths |-> NoFile]
    /\ tmp = NoFile
    /\ pc = "idle"
    /\ call = Constructed
    /\ mutated = FALSE
    /\ saved = [p \in Paths |-> NoSave]
    /\ scan = NoScan

NextTwoPaths ==
    \/ \E items \in SUBSET Items : add(items)
    \/ \E items \in SUBSET Items : remove(items)
    \/ \E items \in SUBSET Items : changed(items)
    \/ \E path \in Paths : load(path)
    \/ \E arg \in Paths \cup {NoName} : save(arg)
    \/ SaveOpen
    \/ SaveWrite
    \/ \E err \in SaveErrors : SaveFail(err)
    \/ SaveCommit

SpecTwoPaths == InitTwoPaths /\ [][NextTwoPaths]_vars

-----------------------------------------------------------------------------
(* iter_paths *)

\* Paths are strings, here sequences of characters.
Sep == "/"

\* os.path.join(path, name)
Join(path, nm) == path \o <<Sep>> \o nm

\* str.startswith
StartsWith(path, prefix) ==
    Len(prefix) <= Len(path) /\ SubSeq(path, 1, Len(prefix)) = prefix

\* os.path.basename: what follows the last separator
Basename(path) ==
    LET seps == {j \in 1..Len(path) : path[j] = Sep}
        last == IF seps = {} THEN 0 ELSE CHOOSE j \in seps : \A i \in seps : i <= j
    IN SubSeq(path, last + 1, Len(path))

\* quodlibet.util.path.ishidden: hidden by the convention of names, a leading
\* dot; the directories above the path are not looked at.
IsHidden(path) == Basename(path) # << >> /\ Head(Basename(path)) = "."

\* The directory tree: /r with a, b/c, .h/x and the symbolic link l.
RootDir == <<Sep, "r">>

SubDir == Join(RootDir, <<"b">>)

HiddenDir == Join(RootDir, <<".", "h">>)

FileA == Join(RootDir, <<"a">>)

FileC == Join(SubDir, <<"c">>)

FileX == Join(HiddenDir, <<"x">>)

LinkL == Join(RootDir, <<"l">>)

TreePaths == {RootDir, SubDir, HiddenDir, FileA, FileC, FileX, LinkL}

Names == {Basename(path) : path \in TreePaths}

LinkTargets == {FileA, FileC, FileX, SubDir}

None == [kind |-> "none"]

Dir == [kind |-> "dir"]

File == [kind |-> "file"]

Link(target) == [kind |-> "link", to |-> target]

AnyTrees ==
    {[path \in TreePaths |->
        CASE path = RootDir -> Dir
          [] path = FileA -> a
          [] path = SubDir -> b
          [] path = FileC -> IF b = Dir THEN c ELSE None
          [] path = HiddenDir -> h
          [] path = FileX -> IF h = Dir THEN x ELSE None
          [] path = LinkL -> l] :
        a \in {None, File}, b \in {None, Dir}, c \in {None, File},
        h \in {None, Dir, File}, x \in {None, File},
        l \in {None} \cup {Link(target) : target \in LinkTargets}}

\* The trees: an entry exists in a directory only, and the target of the
\* symbolic link exists.
Trees ==
    {tree \in AnyTrees :
        tree[LinkL].kind = "link" => tree[tree[LinkL].to].kind # "none"}

Roots == {RootDir, HiddenDir}

Excludes == {{}, {SubDir}, {FileA}, {HiddenDir}}

Exists(tree, path) == path \in TreePaths /\ tree[path].kind # "none"

\* os.scandir(top): the entries of a directory
Entries(tree, top) ==
    {path \in TreePaths : Exists(tree, path) /\ \E nm \in Names : path = Join(top, nm)}

\* entry.is_dir(), which follows a symbolic link
IsDirEntry(tree, path) ==
    \/ tree[path].kind = "dir"
    \/ tree[path].kind = "link" /\ Exists(tree, tree[path].to)
          /\ tree[tree[path].to].kind = "dir"

\* os.walk(root): dnames and fnames of a directory, and the directories it
\* descends into (followlinks is False: not into symbolic links)
Dnames(tree, top) == {path \in Entries(tree, top) : IsDirEntry(tree, path)}

Fnames(tree, top) == {path \in Entries(tree, top) : ~IsDirEntry(tree, path)}

Descends(tree, dnames) == {path \in dnames : tree[path].kind = "dir"}

\* os.path.realpath: symbolic links resolved, whether the target exists or not
RealPath(tree, path) ==
    IF Exists(tree, path) /\ tree[path].kind = "link" THEN tree[path].to ELSE path

\* lines 310-314: skip(path)
Skip(path, exclude, skip_hidden) ==
    \/ skip_hidden /\ IsHidden(path)
    \/ \E prefix \in exclude : StartsWith(path, prefix)

\* lines 320-322: dnames[:] = the directories that are not hidden
Pruned(dnames, skip_hidden) ==
    IF skip_hidden THEN {path \in dnames : ~IsHidden(path)} ELSE dnames

\* lines 323-330: the files of a directory that are yielded, each with the
\* path it was found at and the resolved path that is yielded
Yields(tree, fnames, exclude, skip_hidden) ==
    {[at |-> path, path |-> RealPath(tree, path)] :
        path \in {f \in fnames : /\ ~Skip(f, exclude, skip_hidden)
                                 /\ ~Skip(RealPath(tree, f), exclude, skip_hidden)}}

\* The library plays no part in iter_paths.
LibraryIdle ==
    UNCHANGED <<contents, dirty, filename, name, librarian, registered, fs, tmp,
                pc, call, mutated, saved>>

InitIterPaths ==
    /\ contents = << >>
    /\ dirty = FALSE
    /\ filename = NoName
    /\ name = NoName
    /\ librarian = FALSE
    /\ registered = FALSE
    /\ fs = [p \in AllPaths |-> NoFile]
    /\ tmp = NoFile
    /\ pc = "idle"
    /\ call = Constructed
    /\ mutated = FALSE
    /\ saved = [p \in Paths |-> NoSave]
    /\ \E tree \in Trees : scan = [pc |-> "tree", tree |-> tree]

\* iter_paths(root, exclude, skip_hidden) up to the loop: lines 316-317
iter_paths(root, exclude, skip_hidden) ==
    /\ scan.pc = "tree"
    /\ Exists(scan.tree, root)
    /\ scan.tree[root].kind = "dir"
    /\ scan' = [pc |-> IF skip_hidden /\ IsHidden(root) THEN "done" ELSE "walk",
                tree |-> scan.tree,
                root |-> root, exclude |-> exclude, skip_hidden |-> skip_hidden,
                todo |-> IF skip_hidden /\ IsHidden(root) THEN {} ELSE {root},
                yielded |-> {}]
    /\ LibraryIdle

\* One round of the loop of line 319: a directory of the walk
WalkDir ==
    /\ scan.pc = "walk"
    /\ \E top \in scan.todo :
          LET dnames == Pruned(Dnames(scan.tree, top), scan.skip_hidden)
              fnames == Fnames(scan.tree, top)
          IN scan' = [scan EXCEPT
                 !.todo = (@ \ {top}) \cup Descends(scan.tree, dnames),
                 !.yielded = @ \cup Yields(scan.tree, fnames, scan.exclude,
                                           scan.skip_hidden)]
    /\ LibraryIdle

\* os.walk is exhausted
WalkEnds ==
    /\ scan.pc = "walk"
    /\ scan.todo = {}
    /\ scan' = [scan EXCEPT !.pc = "done"]
    /\ LibraryIdle

NextIterPaths ==
    \/ \E root \in Roots, exclude \in Excludes, skip_hidden \in BOOLEAN :
          iter_paths(root, exclude, skip_hidden)
    \/ WalkDir
    \/ WalkEnds

SpecIterPaths == InitIterPaths /\ [][NextIterPaths]_vars

-----------------------------------------------------------------------------
(* The vocabulary of the properties *)

\* The items stored, and the keys they are stored under.
Stored(d) == {d[j].v : j \in 1..Len(d)}

KeysIn(d) == {d[j].k : j \in 1..Len(d)}

\* I2: in the collection as an item or by its key.
Present(d, item) == \E j \in 1..Len(d) : d[j].v = item \/ d[j].k = item.key

SameMapping(d1, d2) ==
    /\ KeysIn(d1) = KeysIn(d2)
    /\ \A i \in 1..Len(d1) : \A j \in 1..Len(d2) : d1[i].k = d2[j].k => d1[i].v = d2[j].v

DistinctKeys(S) == \A x, y \in S : x.key = y.key => x = y

Event(sig, S) == <<[sig |-> sig, items |-> S]>>

\* A step that is a call of the method op, from its entry to its return.
Called(op) == pc = "idle" /\ pc' = "idle" /\ call'.op = op

\* A step that ends a save: with an error logged, or with the file in place.
SaveFailed == pc = "saving" /\ pc' = "idle" /\ call'.log # {}

SaveSucceeded == pc = "saving" /\ pc' = "idle" /\ call'.log = {}

-----------------------------------------------------------------------------
(* C1 *)

\* C1: dirty is true if and only if the contents were mutated (by load, add,
\* remove or an acknowledged changed) since the last successful save, or since
\* construction if there was none.
C1_DirtyIffMutated == dirty = mutated

-----------------------------------------------------------------------------
(* C2 *)

\* C2: a save that fails with a serialization or an I/O error leaves dirty and
\* the contents as they were, and dirty goes from true to false of an object
\* by no step other than a save that succeeded.
C2_OnlySuccessfulSaveClearsDirty ==
    [][ /\ ((pc = "saving" \/ pc' = "saving") /\ ~SaveSucceeded) =>
               (dirty' = dirty /\ contents' = contents)
        /\ (dirty /\ ~dirty' /\ call'.op # "new") =>
               (SaveSucceeded /\ fs'[call.path] = Encode(DictValues(contents)))
      ]_vars

\* A save has failed on a collection with unsaved items, and dirty is still set.
C2_Witness ==
    /\ pc = "idle" /\ call.op = "save" /\ call.log # {}
    /\ dirty /\ contents # << >>

-----------------------------------------------------------------------------
(* C3 *)

\* C3: at every step during and after a save the file at every library path
\* is what it was, or, when the save has succeeded, the complete encoding of
\* the contents: never part of it, and unchanged by a save that fails.
C3_AtomicSave ==
    [][ \A p \in Paths :
            fs'[p] # fs[p] =>
                /\ SaveSucceeded
                /\ p = call.path
                /\ fs'[p] = Encode(DictValues(contents))
      ]_vars

\* A save is under way with part of the new bytes written, while the target
\* still holds all of what an earlier save put there.
C3_Witness ==
    /\ pc = "saving" /\ tmp # NoFile /\ Len(tmp) > 0
    /\ tmp # Encode(DictValues(contents))
    /\ saved[call.path].has
    /\ saved[call.path].d # contents
    /\ fs[call.path] = Encode(DictValues(saved[call.path].d))

-----------------------------------------------------------------------------
(* C4 *)

\* C4, as claimed: for all disjoint non-empty sets A and B of items, add(A) on
\* an empty collection stores exactly A, returns A and emits one `added` with
\* A, and add(B) right after it makes the collection exactly A \cup B,
\* returns B and emits one `added` with B.
C4_AddDisjointSets ==
    [][ Called("add") =>
          /\ (contents = << >> /\ call'.items # {}) =>
                /\ Stored(contents') = call'.items
                /\ call'.ret = call'.items
                /\ call'.emitted = Event("added", call'.items)
          /\ ( /\ call.op = "add" /\ call.items # {} /\ call.ret = call.items
               /\ Stored(contents) = call.items
               /\ call'.items # {} /\ call'.items \cap call.items = {} ) =>
                /\ Stored(contents') = call.items \cup call'.items
                /\ call'.ret = call'.items
                /\ call'.emitted = Event("added", call'.items)
      ]_vars

\* C4, amended: the same for A and B whose items carry pairwise distinct keys.
C4_AddDisjointKeys ==
    [][ Called("add") =>
          /\ (contents = << >> /\ call'.items # {} /\ DistinctKeys(call'.items)) =>
                /\ Stored(contents') = call'.items
                /\ call'.ret = call'.items
                /\ call'.emitted = Event("added", call'.items)
          /\ ( /\ call.op = "add" /\ call.items # {} /\ call.ret = call.items
               /\ Stored(contents) = call.items
               /\ call'.items # {} /\ call'.items \cap call.items = {}
               /\ DistinctKeys(call.items \cup call'.items) ) =>
                /\ Stored(contents') = call.items \cup call'.items
                /\ call'.ret = call'.items
                /\ call'.emitted = Event("added", call'.items)
      ]_vars

\* add(B) has returned B and emitted it, and the collection holds B and the
\* items of another key that were there before.
C4_Witness ==
    /\ pc = "idle" /\ call.op = "add" /\ call.items # {}
    /\ call.ret = call.items
    /\ call.emitted = Event("added", call.items)
    /\ Stored(contents) \ call.items # {}
    /\ DistinctKeys(Stored(contents))
    /\ call.items \subseteq Stored(contents)

-----------------------------------------------------------------------------
(* C5 *)

\* C5: add(A) when every item of A is present, as an item or by its key,
\* returns the empty set, emits nothing and changes nothing: not the contents,
\* not dirty, not the files.
C5_AddIdempotent ==
    [][ (Called("add") /\ \A item \in call'.items : Present(contents, item)) =>
          /\ call'.ret = {}
          /\ call'.emitted = NoEvents
          /\ call'.raised = ""
          /\ contents' = contents
          /\ dirty' = dirty
          /\ UNCHANGED <<filename, fs, tmp>>
      ]_vars

\* add of items that are all present, one of them by its key only, has
\* returned the empty set on a collection that is saved and not dirty.
C5_Witness ==
    /\ pc = "idle" /\ call.op = "add" /\ call.items # {}
    /\ call.ret = {} /\ call.emitted = NoEvents
    /\ \A item \in call.items : Present(contents, item)
    /\ \E item \in call.items : item \notin Stored(contents)
    /\ ~dirty /\ contents # << >>

-----------------------------------------------------------------------------
(* C6 *)

\* C6: remove(X) deletes exactly the entries of the items of X that are
\* present, returns that set, emits one `removed` with it and sets dirty; when
\* none is present it returns the empty set, emits nothing and changes nothing.
C6_RemovePresent ==
    [][ Called("remove") =>
          LET gone == {item \in call'.items : Present(contents, item)} IN
          IF gone = {}
          THEN /\ call'.ret = {} /\ call'.emitted = NoEvents /\ call'.raised = ""
               /\ contents' = contents /\ dirty' = dirty
          ELSE /\ call'.raised = ""
               /\ call'.ret = gone
               /\ call'.emitted = Event("removed", gone)
               /\ dirty'
               /\ contents' = SelectSeq(contents,
                                  LAMBDA e : e.k \notin {item.key : item \in gone})
      ]_vars

\* C6 for sets X whose items carry pairwise distinct keys.
C6_RemoveDistinctKeys ==
    [][ (Called("remove") /\ DistinctKeys(call'.items)) =>
          LET gone == {item \in call'.items : Present(contents, item)} IN
          IF gone = {}
          THEN /\ call'.ret = {} /\ call'.emitted = NoEvents /\ call'.raised = ""
               /\ contents' = contents /\ dirty' = dirty
          ELSE /\ call'.raised = ""
               /\ call'.ret = gone
               /\ call'.emitted = Event("removed", gone)
               /\ dirty'
               /\ contents' = SelectSeq(contents,
                                  LAMBDA e : e.k \notin {item.key : item \in gone})
      ]_vars

-----------------------------------------------------------------------------
(* C7 *)

\* C7: after load(path) on a newly constructed collection, of a file that a
\* successful save(path) wrote, the collection has the keys that the saved one
\* had and under each key the item that the saved one had.
C7_RoundTrip ==
    (pc = "idle" /\ call.op = "load" /\ call.fresh /\ saved[call.path].has) =>
        SameMapping(contents, saved[call.path].d)

\* A new collection has loaded a file saved from a collection of two items.
C7_Witness ==
    /\ pc = "idle" /\ call.op = "load" /\ call.fresh
    /\ saved[call.path].has
    /\ Len(saved[call.path].d) = 2
    /\ Len(contents) = 2

-----------------------------------------------------------------------------
(* C8 *)

\* The step is load(path) on a newly constructed collection, of a file holding
\* bytes that the codec does not decode.
LoadsGarbage == Called("load") /\ call.op = "new" /\ fs[call'.path] \in Garbage

-----------------------------------------------------------------------------
(* C9 *)

\* C9: every `added`, `removed` and `changed` signal a call emits carries a
\* non-empty set of items.
C9_NoEmptyEvent ==
    \A j \in 1..Len(call.emitted) : call.emitted[j].items # {}

\* changed was called with items the library contains, was handed to the
\* librarian, and no signal was emitted.
C9_Witness ==
    /\ pc = "idle" /\ call.op = "changed"
    /\ librarian /\ registered
    /\ \E item \in call.items : Present(contents, item)
    /\ call.emitted = NoEvents

-----------------------------------------------------------------------------
(* C10 *)

\* C10 (I1): every entry of the mapping is stored under the key of its item,
\* and no key has two entries.
C10_KeyConsistency ==
    /\ \A j \in 1..Len(contents) : contents[j].k = contents[j].v.key
    /\ \A i, j \in 1..Len(contents) : contents[i].k = contents[j].k => i = j

\* A load has filled the collection with two items, one of them the second
\* item of its key.
C10_Witness ==
    /\ pc = "idle" /\ call.op = "load"
    /\ Len(contents) = 2
    /\ \E j \in 1..Len(contents) : contents[j].v.id # contents[j].v.key

-----------------------------------------------------------------------------
(* C11 *)

\* The items of S that are in the collection d, as items or by their keys.
PresentOf(d, S) == {item \in S : Present(d, item)}

\* C11: when no librarian is set, or one is set and this library is not among
\* its libraries, changed(items) leaves the mapping as it is; when some of
\* the items are present it emits one `changed` with exactly those and sets
\* dirty, and when none is present it emits nothing and leaves dirty alone.
C11_LocalChanged ==
    [][ (Called("changed") /\ ~(librarian /\ registered)) =>
          /\ contents' = contents
          /\ call'.raised = ""
          /\ call'.handed = << >>
          /\ IF PresentOf(contents, call'.items) = {}
             THEN call'.emitted = NoEvents /\ dirty' = dirty
             ELSE call'.emitted = Event("changed", PresentOf(contents, call'.items))
                  /\ dirty'
      ]_vars

\* A librarian is set, this library is not one of its libraries, and changed
\* of a present and an absent item has emitted the present one alone.
C11_Witness ==
    /\ pc = "idle" /\ call.op = "changed"
    /\ librarian /\ ~registered /\ name = NoName
    /\ call.handed = << >>
    /\ PresentOf(contents, call.items) # {}
    /\ PresentOf(contents, call.items) # call.items
    /\ call.emitted = Event("changed", PresentOf(contents, call.items))
    /\ dirty

-----------------------------------------------------------------------------
(* C12 *)

\* C12: when a librarian is set and this library is one of its libraries,
\* changed(items) with items not empty calls the librarian's changed once,
\* with the items as they were given, and does nothing itself: the mapping is
\* untouched, and `changed` is emitted and dirty set only when, and with the
\* items with which, the librarian calls back.
C12_DelegatedChanged ==
    [][ (Called("changed") /\ librarian /\ registered /\ call'.items # {}) =>
          /\ Len(call'.handed) = 1
          /\ call'.handed[1].op = "changed"
          /\ call'.handed[1].items = call'.items
          /\ contents' = contents
          /\ call'.raised = ""
          /\ IF call'.handed[1].gave = {}
             THEN call'.emitted = NoEvents /\ dirty' = dirty
             ELSE call'.emitted = Event("changed", call'.handed[1].gave) /\ dirty'
      ]_vars

\* changed of a present and an absent item was handed to the librarian with
\* both, and this library's signal did not fire and dirty is not set.
C12_Witness ==
    /\ pc = "idle" /\ call.op = "changed"
    /\ librarian /\ registered
    /\ Len(call.handed) = 1 /\ call.handed[1].items = call.items
    /\ PresentOf(contents, call.items) # {}
    /\ PresentOf(contents, call.items) # call.items
    /\ call.emitted = NoEvents
    /\ ~dirty

-----------------------------------------------------------------------------
(* C13 *)

\* C13: add, remove and changed of any items, and load and save of any path,
\* save without a path included, return without raising: no call ends with an
\* exception let through to its caller.
C13_NeverRaises == call.raised = ""

-----------------------------------------------------------------------------
(* C14 *)

\* C14: every signal of add, remove and a changed that is not delegated is
\* emitted inside the call, after the mapping and dirty were updated: the
\* handlers of `added` find every item of the payload in the collection (I2)
\* and dirty true, those of `removed` find no key of the payload in the
\* collection and dirty true, and those of `changed` find dirty true.
C14_EmissionOrder ==
    /\ Len(call.seen) = Len(call.emitted)
    /\ \A j \in 1..Len(call.emitted) :
          /\ call.op \in {"add", "remove", "changed"}
          /\ call.seen[j].dirty
          /\ call.emitted[j].sig = "added" =>
                 \A item \in call.emitted[j].items : Present(call.seen[j].contents, item)
          /\ call.emitted[j].sig = "removed" =>
                 \A item \in call.emitted[j].items :
                     item.key \notin KeysIn(call.seen[j].contents)

\* remove on a collection that was saved and clean has emitted `removed`, and
\* its handlers found the other entries still there and dirty set.
C14_Witness ==
    /\ pc = "idle" /\ call.op = "remove"
    /\ Len(call.emitted) = 1 /\ call.emitted[1].sig = "removed"
    /\ Len(call.seen) = 1
    /\ call.seen[1].contents # << >>
    /\ call.seen[1].dirty
    /\ saved["lib"].has /\ Len(saved["lib"].d) = Len(contents) + 1

-----------------------------------------------------------------------------
(* C15 *)

\* C15: load(path) emits no signal and raises nothing, whether the file is
\* missing, holds bytes the codec does not decode, or is valid; when it is
\* missing or not decodable the contents are what they were before the call.
C15_LoadSilent ==
    [][ Called("load") =>
          /\ call'.emitted = NoEvents
          /\ call'.seen = << >>
          /\ call'.raised = ""
          /\ (fs[call'.path] = NoFile \/ fs[call'.path] \in Garbage) =>
                 (contents' = contents /\ call'.log # {})
      ]_vars

\* A collection holding items has loaded a file that is not decodable: the
\* failure is logged and the items are still there.
C15_Witness ==
    /\ pc = "idle" /\ call.op = "load"
    /\ fs[call.path] \in Garbage
    /\ "decode_exc" \in call.log
    /\ call.emitted = NoEvents /\ call.raised = ""
    /\ contents # << >>

-----------------------------------------------------------------------------
(* C16 *)

\* C16: a library constructed with a name while a librarian is set is
\* registered, and one constructed without a name, or without a librarian, is
\* not; changed of items hands them to the librarian exactly when the library
\* is registered; destroy unregisters it and leaves the contents and dirty as
\* they were; and a library that is not registered stays so, every later
\* changed being handled by the library itself: the items present emitted in
\* one `changed` and dirty set, or nothing when none is present.
C16_Lifecycle ==
    [][ /\ call'.op = "new" => (registered' <=> (librarian /\ name' # NoName))
        /\ name' = NoName => ~registered'
        /\ Called("destroy") =>
               (~registered' /\ contents' = contents /\ dirty' = dirty)
        /\ (~registered /\ call'.op # "new") => ~registered'
        /\ (Called("changed") /\ call'.items # {}) =>
               (call'.handed # << >> <=> registered)
        /\ (Called("changed") /\ ~registered) =>
               IF PresentOf(contents, call'.items) = {}
               THEN call'.emitted = NoEvents /\ dirty' = dirty
               ELSE call'.emitted = Event("changed", PresentOf(contents, call'.items))
                    /\ dirty'
      ]_vars

\* A named library of an application with a librarian has been destroyed, and
\* a changed after that was not handed over: the library emitted the present
\* items itself and is dirty.
C16_Witness ==
    /\ pc = "idle" /\ call.op = "changed"
    /\ librarian /\ name # NoName /\ ~registered
    /\ call.handed = << >>
    /\ PresentOf(contents, call.items) # {}
    /\ call.emitted = Event("changed", PresentOf(contents, call.items))
    /\ dirty /\ saved["lib"].has

-----------------------------------------------------------------------------
(* C17 *)

\* The last component of the path has a leading dot.
HiddenName(path) ==
    \E j \in 1..(Len(path) - 1) :
        /\ path[j] = Sep /\ path[j + 1] = "."
        /\ \A i \in (j + 1)..Len(path) : path[i] # Sep

\* The path is hidden, or lies under a directory of the tree that is.
HasHiddenPart(tree, path) ==
    \/ HiddenName(path)
    \/ \E j \in 2..Len(path) :
          /\ path[j] = Sep
          /\ HiddenName(SubSeq(path, 1, j - 1))
          /\ SubSeq(path, 1, j - 1) \in DOMAIN tree
          /\ tree[SubSeq(path, 1, j - 1)].kind = "dir"

ExcludedBy(path, exclude) ==
    \E prefix \in exclude :
        /\ Len(prefix) <= Len(path)
        /\ \A j \in 1..Len(prefix) : path[j] = prefix[j]

\* The regular files below the root.
RegularBelow(tree, root) ==
    {path \in DOMAIN tree :
        /\ tree[path].kind = "file"
        /\ Len(path) > Len(root) + 1
        /\ \A j \in 1..Len(root) : path[j] = root[j]
        /\ path[Len(root) + 1] = Sep}

\* C17: with skip_hidden, no path iter_paths yields, as found in the walk or
\* as resolved, starts with a prefix of exclude, is hidden or lies under a
\* hidden directory; a hidden root yields nothing; and every regular file
\* below the root that is not excluded, not hidden and under no hidden
\* directory is yielded.
C17_IterPathsFiltering ==
    (scan.pc = "done" /\ scan.skip_hidden) =>
        /\ \A y \in scan.yielded : \A path \in {y.at, y.path} :
               ~ExcludedBy(path, scan.exclude) /\ ~HasHiddenPart(scan.tree, path)
        /\ HasHiddenPart(scan.tree, scan.root) => scan.yielded = {}
        /\ \A path \in RegularBelow(scan.tree, scan.root) :
               (~ExcludedBy(path, scan.exclude) /\ ~HasHiddenPart(scan.tree, path)) =>
                   \E y \in scan.yielded : y.path = path

\* C17 for the paths as found in the walk, and for trees without symbolic
\* links for the paths yielded as well.
C17_FilteringAsFound ==
    (scan.pc = "done" /\ scan.skip_hidden) =>
        /\ \A y \in scan.yielded :
               /\ ~ExcludedBy(y.at, scan.exclude) /\ ~HasHiddenPart(scan.tree, y.at)
               /\ ~ExcludedBy(y.path, scan.exclude)
               /\ scan.tree[y.at].kind = "file" => y.path = y.at
        /\ HasHiddenPart(scan.tree, scan.root) => scan.yielded = {}
        /\ \A path \in RegularBelow(scan.tree, scan.root) :
               (~ExcludedBy(path, scan.exclude) /\ ~HasHiddenPart(scan.tree, path)) =>
                   \E y \in scan.yielded : y.path = path

-----------------------------------------------------------------------------
(* C18 *)

\* The items a new collection holds after loading a file of these bytes:
\* none when there is no file or the bytes are not decodable.
ItemsOfFile(b) ==
    IF b = NoFile \/ b \in Garbage \/ Len(b) = 0 THEN {}
    ELSE {[id |-> b[2 * j], key |-> b[2 * j + 1]] : j \in 1..b[1]}

\* C18: whenever a default path is recorded and dirty is false, between
\* calls, the file at the default path loaded into a new collection gives
\* the items the library holds.
C18_CleanInSync ==
    (pc = "idle" /\ filename # NoName /\ ~dirty) =>
        ItemsOfFile(fs[filename]) = Stored(contents)

-----------------------------------------------------------------------------
(* C19 *)

\* C19: after add has returned the set S, every item of S is the item stored
\* under its key and the collection has Cardinality(S) more items than
\* before; after remove has returned S it has Cardinality(S) fewer.
C19_AcceptedIsStored ==
    [][ /\ (Called("add") /\ call'.raised = "") =>
              /\ \A x \in call'.ret :
                     \E j \in 1..Len(contents') :
                         contents'[j].k = x.key /\ contents'[j].v = x
              /\ Len(contents') = Len(contents) + Cardinality(call'.ret)
        /\ (Called("remove") /\ call'.raised = "") =>
              Len(contents') = Len(contents) - Cardinality(call'.ret)
      ]_vars

\* The half of C19 that is about remove, and add for arguments whose items
\* carry pairwise distinct keys.
C19_StoredForDistinctKeys ==
    [][ /\ (Called("add") /\ call'.raised = "" /\ DistinctKeys(call'.items)) =>
              /\ \A x \in call'.ret :
                     \E j \in 1..Len(contents') :
                         contents'[j].k = x.key /\ contents'[j].v = x
              /\ Len(contents') = Len(contents) + Cardinality(call'.ret)
        /\ (Called("remove") /\ call'.raised = "") =>
              Len(contents') = Len(contents) - Cardinality(call'.ret)
      ]_vars

-----------------------------------------------------------------------------
(* C20 *)

\* C20: add replaces no entry: every entry of the mapping before the call is
\* an entry after it, and an item of the argument whose key was present,
\* whether it is the stored item or another one, is neither returned nor in
\* the payload of `added`.
C20_AddNeverReplaces ==
    [][ Called("add") =>
          /\ \A j \in 1..Len(contents) :
                 \E i \in 1..Len(contents') : contents'[i] = contents[j]
          /\ \A item \in call'.items :
                 item.key \in KeysIn(contents) =>
                     /\ item \notin call'.ret
                     /\ \A e \in 1..Len(call'.emitted) :
                            item \notin call'.emitted[e].items
      ]_vars

\* add was given a new item and another item than the one stored under a
\* present key: the new one was added, the stored one is still there.
C20_Witness ==
    /\ pc = "idle" /\ call.op = "add"
    /\ call.ret # {} /\ call.ret # call.items
    /\ call.emitted = Event("added", call.ret)
    /\ \E item \in call.items \ call.ret :
          /\ item \notin Stored(contents)
          /\ item.key \in KeysIn(contents)
    /\ DistinctKeys(call.items)

====
